---- MODULE Spec2Model ----
(***************************************************************************)
(* RandomX1 (RandomX1.h): a bit cache over the native Arduino generator.   *)
(* Two 31-bit buffers (m_bits, m_bitCounts) and an index (m_ctrlIndex);    *)
(* randomBits() toggles the index and extracts bits, random() is a         *)
(* rejection sampler with two draws, two peeks and a native fallback.      *)
(*                                                                         *)
(* Every public member function is one action.  The native generator is    *)
(* external: each of its raw outputs is an input chosen from NativeRaw.    *)
(* Arithmetic keeps the widths of the source: uint8_t wraps modulo 256,    *)
(* uint32_t << is truncated to 32 bits and read back as a signed long.     *)
(***************************************************************************)
EXTENDS Integers, Sequences, FiniteSets, TLC

(***************************************************************************)
(* Program constants                                                       *)
(***************************************************************************)
BITS_PER_NATIVE_RANDOM == 31

MAX_BITS_PER_RANDOM_REQUEST == 20

\* static const uint8_t MAX_VALUE_PER_RANDOM_REQUEST = ((1 << 20) - 1);
\* the initialiser is converted to uint8_t, i.e. reduced modulo 256.  With a
\* 32-bit int the initialiser is 1048575; with the 16-bit int of the AVR the
\* shift yields 0 and the initialiser is -1.  Both convert to 255.
MAX_VALUE_PER_RANDOM_REQUEST == ((2^MAX_BITS_PER_RANDOM_REQUEST) - 1) % 256

\* LONG_MAX of the 32-bit long
LONG_MAX == 2147483647

\* static const long MASKS[32]
MASKS ==
    << 0, 1, 3, 7,
       15, 31, 63, 127,
       255, 511, 1023, 2047,
       4095, 8191, 16383, 32767,
       65535, 131071, 262143, 524287,
       1048575, 2097151, 4194303, 8388607,
       16777215, 33554431, 67108863, 134217727,
       268435455, 536870911, 1073741823, 2147483647 >>

\* static const uint8_t REQUIRED_BITS[256]
REQUIRED_BITS ==
    << 0, 1, 2, 2, 3, 3, 3, 3, 4, 4, 4, 4, 4, 4, 4, 4,
       5, 5, 5, 5, 5, 5, 5, 5, 5, 5, 5, 5, 5, 5, 5, 5,
       6, 6, 6, 6, 6, 6, 6, 6, 6, 6, 6, 6, 6, 6, 6, 6,
       6, 6, 6, 6, 6, 6, 6, 6, 6, 6, 6, 6, 6, 6, 6, 6,
       7, 7, 7, 7, 7, 7, 7, 7, 7, 7, 7, 7, 7, 7, 7, 7,
       7, 7, 7, 7, 7, 7, 7, 7, 7, 7, 7, 7, 7, 7, 7, 7,
       7, 7, 7, 7, 7, 7, 7, 7, 7, 7, 7, 7, 7, 7, 7, 7,
       7, 7, 7, 7, 7, 7, 7, 7, 7, 7, 7, 7, 7, 7, 7, 7,
       8, 8, 8, 8, 8, 8, 8, 8, 8, 8, 8, 8, 8, 8, 8, 8,
       8, 8, 8, 8, 8, 8, 8, 8, 8, 8, 8, 8, 8, 8, 8, 8,
       8, 8, 8, 8, 8, 8, 8, 8, 8, 8, 8, 8, 8, 8, 8, 8,
       8, 8, 8, 8, 8, 8, 8, 8, 8, 8, 8, 8, 8, 8, 8, 8,
       8, 8, 8, 8, 8, 8, 8, 8, 8, 8, 8, 8, 8, 8, 8, 8,
       8, 8, 8, 8, 8, 8, 8, 8, 8, 8, 8, 8, 8, 8, 8, 8,
       8, 8, 8, 8, 8, 8, 8, 8, 8, 8, 8, 8, 8, 8, 8, 8,
       8, 8, 8, 8, 8, 8, 8, 8, 8, 8, 8, 8, 8, 8, 8, 8 >>

(***************************************************************************)
(* Bounds of the model                                                     *)
(***************************************************************************)
\* number of member-function calls made on a generator after construction
MaxCalls == 4

\* the non-zero offset given to randomBits() is -MaxOffset
MaxOffset == 7

\* raw outputs of the native random(), each in 0 .. 2^31 - 1:
\*   0x7FFFFFFE, whose every 8-bit window is at least 254, and
\*   0x5A5AC3F0, whose bytes are F0, C3, 5A, 5A
NativeRaw == { 2147483646, 1515897840 }

\* the arguments (bit_count, offset) given to randomBits()
BitsInputs ==
    { <<0, 0>>, <<0, 0 - MaxOffset>>, <<3, 0 - MaxOffset>>, <<20, 0>>,
      <<20, 0 - MaxOffset>>, <<21, 0 - MaxOffset>>, <<255, 0>> }

\* the arguments (min_val, max_val) given to random()
RangeInputs ==
    { <<0, 201>>, <<0 - 10, 7>>, <<3, 4>>, <<10, 3>>,
      <<0, 1001>>, <<0 - 4, 252>> }

MaxInputs == {0, 0 - 5, 101}

SeedInputs == {0, 42}

(***************************************************************************)
(* Bit operations on non-negative integers below 2^31                      *)
(***************************************************************************)
RECURSIVE BitAnd(_, _)
BitAnd(a, b) ==
    IF a = 0 \/ b = 0 THEN 0
    ELSE (a % 2) * (b % 2) + 2 * BitAnd(a \div 2, b \div 2)

RECURSIVE BitOr(_, _)
BitOr(a, b) ==
    IF a = 0 THEN b
    ELSE IF b = 0 THEN a
    ELSE ((a % 2) + (b % 2) - (a % 2) * (b % 2)) + 2 * BitOr(a \div 2, b \div 2)

\* (long)(x << k) for a uint32_t x < 2^31 and 0 <= k <= 31: the product is
\* truncated to 32 bits and bit 31 of it is the sign of the long.
ShiftLeftLong(x, k) ==
    IF k = 0 THEN x
    ELSE LET low31 == IF k = 31 THEN 0 ELSE (x % (2^(31 - k))) * (2^k)
             top   == (x \div (2^(31 - k))) % 2
         IN  IF top = 1 THEN (low31 - 2^30) - 2^30 ELSE low31

\* x >> k for a uint32_t x < 2^31 and 0 <= k <= 31
ShiftRight(x, k) == IF k >= 31 THEN 0 ELSE x \div (2^k)

\* a | b for a long a and a value 0 <= b < 2^31, in two's complement
OrLong(a, b) ==
    IF a >= 0 THEN BitOr(a, b)
    ELSE (BitOr((a + 2^30) + 2^30, b) - 2^30) - 2^30

(***************************************************************************)
(* The native generator, ::random(howbig) of the Arduino core:             *)
(*   if (howbig == 0) return 0;  return random() % howbig;                 *)
(* raw is the output of the underlying random().                           *)
(***************************************************************************)
NativeRandom(raw, howbig) == IF howbig = 0 THEN 0 ELSE raw % howbig

VARIABLES
    m_bits,        \* uint32_t m_bits[2]
    m_bitCounts,   \* uint8_t  m_bitCounts[2]
    m_ctrlIndex,   \* uint8_t  m_ctrlIndex
    nativeSeed,    \* the seed last given to ::randomSeed()
    op,            \* the member function called last
    args,          \* its arguments
    ret,           \* its return value
    drawn,         \* the raw native outputs it consumed, in order
    pre,           \* the three members as they were when it was called
    trace,         \* what it did: span, width, path, readOK, src, log
    calls          \* number of calls made since construction

vars == << m_bits, m_bitCounts, m_ctrlIndex, nativeSeed,
           op, args, ret, drawn, pre, trace, calls >>

(***************************************************************************)
(* Private member functions.  g is the generator during a call: bits,      *)
(* counts, idx are the members; in holds the raw native outputs the call   *)
(* may consume, drawn those consumed so far; readOK says that every read   *)
(* so far used only bit positions below the buffer's count at that moment; *)
(* log lists the steps of the call so far.                                 *)
(***************************************************************************)
\* g with one more step in its log: a "get" (_get_bits), a "peek"
\* (_peek_bits) or a "native" (the ::random(diff) of random()).  buf is the
\* value of m_ctrlIndex the step started with, n the number of bits it was
\* asked for, val its value, ok whether it took a value; bits, counts, idx
\* and nd are the members and the number of native outputs consumed when
\* the step ended.
Note(g, kind, buf, n, val, ok) ==
    [g EXCEPT !.log = Append(@, [kind |-> kind, buf |-> buf, n |-> n,
                                 val |-> val, ok |-> ok,
                                 bits |-> g.bits, counts |-> g.counts,
                                 idx |-> g.idx, nd |-> Len(g.drawn)])]

\* the end of _get_bits:  return ret;
Got(g, buf, n, val) == [g |-> Note(g, "get", buf, n, val, TRUE), ret |-> val]

\* the next raw native output; a call that asks for more outputs than in
\* holds is run again with a longer in (see Outcomes)
NextRaw(g) == IF Len(g.drawn) < Len(g.in) THEN g.in[Len(g.drawn) + 1] ELSE 0

\* variant: a refilled buffer is taken to hold one bit less than it does
Refill_less(g) ==
    [g EXCEPT !.bits[g.idx]   = NativeRandom(NextRaw(g), LONG_MAX),
              !.counts[g.idx] = BITS_PER_NATIVE_RANDOM - 1,
              !.drawn         = Append(g.drawn, NextRaw(g))]

\* m_bits[m_ctrlIndex] = ::random(LONG_MAX); m_bitCounts[m_ctrlIndex] = 31;
Refill(g) ==
    [g EXCEPT !.bits[g.idx]   = NativeRandom(NextRaw(g), LONG_MAX),
              !.counts[g.idx] = BITS_PER_NATIVE_RANDOM,
              !.drawn         = Append(g.drawn, NextRaw(g))]

\* variant: the table is read one entry too far
_get_mask_next(bit_count) == MASKS[bit_count + 2]

_get_mask(bit_count) == MASKS[bit_count + 1]

\* _get_bits from its masked read on: ret |= (bits & mask); the bits used
\* are removed.  hi is the value ret has by then, hiOK the ghost of its read.
\* n is the bit_count _get_bits was called with.
\* variant: the bits used stay in the buffer
TakeBits_keep(g, bit_count, hi, hiOK, n) ==
    Got([g EXCEPT !.counts[g.idx] = (@ - bit_count) % 256,
                  !.readOK        = @ /\ hiOK /\ bit_count <= g.counts[g.idx]],
        g.idx, n,
        OrLong(hi, BitAnd(g.bits[g.idx], _get_mask(bit_count))))

TakeBits(g, bit_count, hi, hiOK, n) ==
    Got([g EXCEPT !.counts[g.idx] = (@ - bit_count) % 256,
                  !.bits[g.idx]   = ShiftRight(@, bit_count),
                  !.readOK        = @ /\ hiOK /\ bit_count <= g.counts[g.idx]],
        g.idx, n,
        OrLong(hi, BitAnd(g.bits[g.idx], _get_mask(bit_count))))

\* bit_count -= m_bitCounts[m_ctrlIndex];   (uint8_t)
Shortfall(g, bit_count) == (bit_count - g.counts[g.idx]) % 256

\* variant: the old bits are shifted by the requested count, not by the
\* shortfall
_get_bits_full_shift(g, bit_count) ==
    IF bit_count > g.counts[g.idx]
    THEN TakeBits(Refill(g), Shortfall(g, bit_count),
                  ShiftLeftLong(g.bits[g.idx], bit_count),
                  g.bits[g.idx] < 2^(g.counts[g.idx]), bit_count)
    ELSE TakeBits(g, bit_count, 0, TRUE, bit_count)

\* When the buffer is short, ret = (m_bits[m_ctrlIndex] << bit_count) reads
\* the whole stored word, then the buffer is refilled.
_get_bits(g, bit_count) ==
    IF bit_count > g.counts[g.idx]
    THEN TakeBits(Refill(g), Shortfall(g, bit_count),
                  ShiftLeftLong(g.bits[g.idx], Shortfall(g, bit_count)),
                  g.bits[g.idx] < 2^(g.counts[g.idx]), bit_count)
    ELSE TakeBits(g, bit_count, 0, TRUE, bit_count)

\* g with a "peek" step in its log; g0 is the generator as _peek_bits found
\* it: bits0, counts0, nd0 are its members and consumed native outputs
PeekNote(g, g0, n, val, ok) ==
    [g EXCEPT !.log = Append(@, [kind |-> "peek", buf |-> g0.idx, n |-> n,
                                 val |-> val, ok |-> ok,
                                 bits |-> g.bits, counts |-> g.counts,
                                 idx |-> g.idx, nd |-> Len(g.drawn),
                                 bits0 |-> g0.bits, counts0 |-> g0.counts,
                                 nd0 |-> Len(g0.drawn)])]

\* _peek_bits returning true:  num = this->_get_bits(bit_count);
Peeked(e, g0, bit_count) ==
    [g |-> PeekNote(e.g, g0, bit_count, e.ret, TRUE), res |-> e.ret,
     ok |-> TRUE]

\* _peek_bits returning false: num is not written
NotPeeked(g, g0, bit_count, res) ==
    [g |-> PeekNote(g, g0, bit_count, res, FALSE), res |-> res, ok |-> FALSE]

\* variant: the peek does not check that the buffer holds enough bits
_peek_bits_unguarded(g, bit_count, num, res) ==
    LET p == [g EXCEPT !.readOK = @ /\ bit_count <= g.counts[g.idx]] IN
    IF BitAnd(p.bits[p.idx], _get_mask(bit_count)) < num
    THEN Peeked(_get_bits(p, bit_count), g, bit_count)
    ELSE NotPeeked(p, g, bit_count, res)

\* variant: the bits are removed before they are tested
_peek_bits_commit(g, bit_count, num, res) ==
    IF g.counts[g.idx] >= bit_count
    THEN LET p == [g EXCEPT !.readOK = @ /\ bit_count <= g.counts[g.idx]] IN
         IF BitAnd(p.bits[p.idx], _get_mask(bit_count)) < num
         THEN Peeked(_get_bits(p, bit_count), g, bit_count)
         ELSE NotPeeked(_get_bits(p, bit_count).g, g, bit_count, res)
    ELSE NotPeeked(g, g, bit_count, res)

\* returns the bool of the source as ok and the reference argument as res
_peek_bits(g, bit_count, num, res) ==
    IF g.counts[g.idx] >= bit_count
    THEN \* the masked read of the low bit_count bits
         LET p == [g EXCEPT !.readOK = @ /\ bit_count <= g.counts[g.idx]] IN
         IF BitAnd(p.bits[p.idx], _get_mask(bit_count)) < num
         THEN Peeked(_get_bits(p, bit_count), g, bit_count)
         ELSE NotPeeked(p, g, bit_count, res)
    ELSE NotPeeked(g, g, bit_count, res)

\* variant: the second stage looks up the value it has just tested to be 0
_get_required_bits_stale(num) ==
    LET temp1 == ShiftRight(num, 8)
        num2  == ShiftRight(temp1, 8)
        temp3 == ShiftRight(num2, 8)
    IN  IF temp1 = 0 THEN REQUIRED_BITS[num + 1]
        ELSE IF num2 = 0 THEN (8 + REQUIRED_BITS[num2 + 1]) % 256
        ELSE IF temp3 = 0 THEN (16 + REQUIRED_BITS[num2 + 1]) % 256
        ELSE (24 + REQUIRED_BITS[temp3 + 1]) % 256

_get_required_bits(num) ==
    LET temp1 == ShiftRight(num, 8)
        num2  == ShiftRight(temp1, 8)
        temp3 == ShiftRight(num2, 8)
    IN  IF temp1 = 0 THEN REQUIRED_BITS[num + 1]
        ELSE IF num2 = 0 THEN (8 + REQUIRED_BITS[temp1 + 1]) % 256
        ELSE IF temp3 = 0 THEN (16 + REQUIRED_BITS[num2 + 1]) % 256
        ELSE (24 + REQUIRED_BITS[temp3 + 1]) % 256

(***************************************************************************)
(* Public member functions                                                 *)
(***************************************************************************)
\* return this->_get_bits(bit_count) + offset;
AddOffset(e, offset) == [g |-> e.g, ret |-> e.ret + offset]

\* if(bit_count > MAX_BITS_PER_RANDOM_REQUEST) bit_count = MAX_...;
LimitBits(bit_count) ==
    IF bit_count > MAX_BITS_PER_RANDOM_REQUEST
    THEN MAX_BITS_PER_RANDOM_REQUEST ELSE bit_count

\* m_ctrlIndex ^= 0x01;
Toggle(g) == [g EXCEPT !.idx = 1 - @]

\* variant: a request for no bits returns the offset
randomBits_zero_offset(g, bit_count, offset) ==
    IF bit_count = 0 THEN [g |-> g, ret |-> offset]
    ELSE AddOffset(_get_bits(Toggle(g), LimitBits(bit_count)), offset)

\* variant: the index is toggled before the test for no bits
randomBits_toggle_first(g, bit_count, offset) ==
    IF bit_count = 0 THEN [g |-> Toggle(g), ret |-> 0]
    ELSE AddOffset(_get_bits(Toggle(g), LimitBits(bit_count)), offset)

\* variant: the request is limited to 31 bits, the width of a buffer
randomBits_limit_31(g, bit_count, offset) ==
    IF bit_count = 0 THEN [g |-> g, ret |-> 0]
    ELSE AddOffset(_get_bits(Toggle(g),
                             IF bit_count > BITS_PER_NATIVE_RANDOM
                             THEN BITS_PER_NATIVE_RANDOM ELSE bit_count),
                   offset)

\* variant: the index is advanced only when the buffer has to be refilled
randomBits_lazy_toggle(g, bit_count, offset) ==
    IF bit_count = 0 THEN [g |-> g, ret |-> 0]
    ELSE IF LimitBits(bit_count) > g.counts[g.idx]
         THEN AddOffset(_get_bits(Toggle(g), LimitBits(bit_count)), offset)
         ELSE AddOffset(_get_bits(g, LimitBits(bit_count)), offset)

randomBits(g, bit_count, offset) ==
    IF bit_count = 0 THEN [g |-> g, ret |-> 0]
    ELSE AddOffset(_get_bits(Toggle(g), LimitBits(bit_count)), offset)

\* variant: a new seed also discards the cached bits
randomSeed_flush(g, seed) ==
    [g |-> [g EXCEPT !.counts = [i \in 0..1 |-> 0]], seed |-> seed]

\* ::randomSeed(seed): the seed goes to the native generator only
randomSeed(g, seed) == [g |-> g, seed |-> seed]

\* the end of the fallback: res holds what ::random(diff) returned
FellBack(g, res) ==
    [g |-> Note(g, "native", g.idx, 0, res, TRUE), res |-> res,
     path |-> "native"]

\* variant: the fallback asks the native generator three times
NativeFallback_thrice(g, diff) ==
    LET g1 == [g  EXCEPT !.drawn = Append(g.drawn, NextRaw(g))]
        g2 == [g1 EXCEPT !.drawn = Append(g1.drawn, NextRaw(g1))]
    IN  FellBack([g2 EXCEPT !.drawn = Append(g2.drawn, NextRaw(g2))],
                 NativeRandom(NextRaw(g2), diff))

\* tried 2-4 times, give up:  res = ::random(diff);
NativeFallback(g, diff) ==
    FellBack([g EXCEPT !.drawn = Append(g.drawn, NextRaw(g))],
             NativeRandom(NextRaw(g), diff))

\* The rejection sampler of random(), stage by stage.  d is the result of a
\* draw, p the result of a peek.
AfterPeek2(p, diff) ==
    IF p.ok THEN [g |-> p.g, res |-> p.res, path |-> "peek2"]
    ELSE NativeFallback(p.g, diff)

\* variant: after the first peek the native generator is asked at once
AfterPeek1_once(p, diff, req_bits) ==
    IF p.ok \/ p.res < diff THEN [g |-> p.g, res |-> p.res, path |-> "peek1"]
    ELSE NativeFallback(p.g, diff)

\* if(!_peek_bits(...)) { if(res >= diff) { m_ctrlIndex ^= 0x01; ...
AfterPeek1(p, diff, req_bits) ==
    IF p.ok \/ p.res < diff THEN [g |-> p.g, res |-> p.res, path |-> "peek1"]
    ELSE AfterPeek2(_peek_bits(Toggle(p.g), req_bits, diff, p.res), diff)

\* variant: the index is advanced before the first peek, not before the
\* second
AfterDraw2_other(d, diff, req_bits) ==
    IF d.ret < diff THEN [g |-> d.g, res |-> d.ret, path |-> "draw2"]
    ELSE AfterPeek1(_peek_bits(Toggle(d.g), req_bits, diff, d.ret), diff,
                    req_bits)

\* if(res >= diff) { if(!this->_peek_bits(req_bits, diff, res)) { ...
AfterDraw2(d, diff, req_bits) ==
    IF d.ret < diff THEN [g |-> d.g, res |-> d.ret, path |-> "draw2"]
    ELSE AfterPeek1(_peek_bits(d.g, req_bits, diff, d.ret), diff, req_bits)

AfterDraw1(d, diff, req_bits) ==
    IF d.ret < diff THEN [g |-> d.g, res |-> d.ret, path |-> "draw1"]
    ELSE AfterDraw2(randomBits(d.g, req_bits, 0), diff, req_bits)

Sample(g, diff, req_bits) ==
    AfterDraw1(randomBits(g, req_bits, 0), diff, req_bits)

\* return (res + min_val);  span, width and path describe the call
Returned(s, min_val, diff, req_bits) ==
    [g |-> s.g, ret |-> s.res + min_val, span |-> diff, width |-> req_bits,
     path |-> s.path]

\* if(diff > MAX_VALUE_PER_RANDOM_REQUEST) diff = MAX_VALUE_PER_RANDOM_REQUEST;
LimitSpan(diff) ==
    IF diff > MAX_VALUE_PER_RANDOM_REQUEST
    THEN MAX_VALUE_PER_RANDOM_REQUEST ELSE diff

\* random() from req_bits = this->_get_required_bits(diff) on
Ranged(g, min_val, diff) ==
    Returned(Sample(g, diff, _get_required_bits(diff)), min_val, diff,
             _get_required_bits(diff))

\* variant: only a negative span is degenerate
random_negative_only(g, min_val, max_val) ==
    IF max_val - min_val - 1 < 0
    THEN [g |-> g, ret |-> 0, span |-> max_val - min_val - 1, width |-> 0,
          path |-> "degenerate"]
    ELSE Ranged(g, min_val, LimitSpan(max_val - min_val - 1))

random(g, min_val, max_val) ==
    IF max_val - min_val - 1 <= 0
    THEN [g |-> g, ret |-> 0, span |-> max_val - min_val - 1, width |-> 0,
          path |-> "degenerate"]
    ELSE Ranged(g, min_val, LimitSpan(max_val - min_val - 1))

\* random(long max_val)
random1(g, max_val) == random(g, 0, max_val)

(***************************************************************************)
(* The state machine: construction, then any sequence of calls             *)
(***************************************************************************)
Members == [bits |-> m_bits, counts |-> m_bitCounts, idx |-> m_ctrlIndex]

\* the generator with members m at the start of a call that may consume the
\* raw outputs in
EnterFrom(m, in) ==
    [bits |-> m.bits, counts |-> m.counts, idx |-> m.idx,
     in |-> in, drawn |-> << >>, readOK |-> TRUE, log |-> << >>]

Enter(in) == EnterFrom(Members, in)

\* the native generator before the constructor's ::randomSeed(seed)
Unseeded == 0 - 1

\* src is the seed the native generator had when the call was made
NoTrace == [span |-> 0, width |-> 0, path |-> "none", readOK |-> TRUE,
            src |-> nativeSeed, log |-> << >>]

\* the member function f called with arguments a on the current members,
\* the native generator producing the raw outputs in
Run(f, a, in) ==
    CASE f = "randomSeed" -> randomSeed(Enter(in), a[1])
      [] f = "randomBits" -> randomBits(Enter(in), a[1], a[2])
      [] f = "random"     -> random(Enter(in), a[1], a[2])
      [] f = "random1"    -> random1(Enter(in), a[1])

\* The results the call can have: it is run on the raw native outputs in,
\* and when it asks for more than in holds, on in extended by each output.
RECURSIVE Outcomes(_, _, _)
Outcomes(f, a, in) ==
    IF Len(Run(f, a, in).g.drawn) <= Len(in)
    THEN { Run(f, a, in) }
    ELSE UNION { Outcomes(f, a, Append(in, w)) : w \in NativeRaw }

\* the members and the consumed raw outputs after a call
Leave(g) ==
    /\ m_bits' = g.bits
    /\ m_bitCounts' = g.counts
    /\ m_ctrlIndex' = g.idx
    /\ drawn' = g.drawn
    /\ pre' = Members
    /\ calls' = calls + 1

\* RandomX1(unsigned long seed = 0): both buffers are filled from the native
\* generator as it is when the constructor is entered (raw outputs r0, r1),
\* and only then is it seeded.  src is the seed the native generator had when
\* the buffers were filled: Unseeded, the constructor's argument not yet given.
\* variant: the native generator is seeded first, so that what it gives the
\* buffers follows from the seed
Construct_seed_first(seed, r0, r1) ==
    [bits   |-> [i \in 0..1 |-> NativeRandom(16807 * (seed + 1) + i, LONG_MAX)],
     counts |-> [i \in 0..1 |-> BITS_PER_NATIVE_RANDOM],
     idx    |-> 0,
     drawn  |-> << 16807 * (seed + 1), 16807 * (seed + 1) + 1 >>,
     src    |-> seed,
     seed   |-> seed]

Construct(seed, r0, r1) ==
    [bits   |-> [i \in 0..1 |-> NativeRandom(IF i = 0 THEN r0 ELSE r1, LONG_MAX)],
     counts |-> [i \in 0..1 |-> BITS_PER_NATIVE_RANDOM],
     idx    |-> 0,
     drawn  |-> << r0, r1 >>,
     src    |-> Unseeded,
     seed   |-> seed]

\* the state after the construction c
Constructed(c) ==
    /\ m_bits = c.bits
    /\ m_bitCounts = c.counts
    /\ m_ctrlIndex = c.idx
    /\ drawn = c.drawn
    /\ nativeSeed = c.seed
    /\ op = "RandomX1"
    /\ args = << c.seed >>
    /\ ret = 0
    /\ pre = Members
    /\ trace = [NoTrace EXCEPT !.src = c.src]
    /\ calls = 0

Init ==
    \E seed \in SeedInputs : \E r0, r1 \in NativeRaw :
        Constructed(Construct(seed, r0, r1))

RandomSeed ==
    /\ calls < MaxCalls
    /\ \E seed \in SeedInputs :
      \E r \in Outcomes("randomSeed", << seed >>, << >>) :
        /\ Leave(r.g)
        /\ nativeSeed' = r.seed
        /\ op' = "randomSeed"
        /\ args' = << seed >>
        /\ ret' = 0
        /\ trace' = [NoTrace EXCEPT !.readOK = r.g.readOK, !.log = r.g.log]

RandomBits ==
    /\ calls < MaxCalls
    /\ \E a \in BitsInputs :
      \E r \in Outcomes("randomBits", a, << >>) :
        /\ Leave(r.g)
        /\ op' = "randomBits"
        /\ args' = a
        /\ ret' = r.ret
        /\ trace' = [NoTrace EXCEPT !.readOK = r.g.readOK, !.log = r.g.log]
        /\ UNCHANGED nativeSeed

Random ==
    /\ calls < MaxCalls
    /\ \E mm \in RangeInputs :
      \E r \in Outcomes("random", mm, << >>) :
        /\ Leave(r.g)
        /\ op' = "random"
        /\ args' = mm
        /\ ret' = r.ret
        /\ trace' = [span |-> r.span, width |-> r.width, path |-> r.path,
                     readOK |-> r.g.readOK, src |-> nativeSeed,
                     log |-> r.g.log]
        /\ UNCHANGED nativeSeed

Random1 ==
    /\ calls < MaxCalls
    /\ \E max_val \in MaxInputs :
      \E r \in Outcomes("random1", << max_val >>, << >>) :
        /\ Leave(r.g)
        /\ op' = "random1"
        /\ args' = << max_val >>
        /\ ret' = r.ret
        /\ trace' = [span |-> r.span, width |-> r.width, path |-> r.path,
                     readOK |-> r.g.readOK, src |-> nativeSeed,
                     log |-> r.g.log]
        /\ UNCHANGED nativeSeed

Next == RandomSeed \/ RandomBits \/ Random \/ Random1

Spec == Init /\ [][Next]_vars

(***************************************************************************)
(* _get_required_bits on its own: a constructed generator, then the        *)
(* function applied to one number of 0 .. 2^20.                            *)
(***************************************************************************)
RequiredBitsInputs == 0..(2^MAX_BITS_PER_RANDOM_REQUEST)

RequiredBits ==
    /\ op = "RandomX1"
    /\ \E num \in RequiredBitsInputs :
        /\ op' = "_get_required_bits"
        /\ args' = << num >>
        /\ ret' = _get_required_bits(num)
    /\ calls' = calls + 1
    /\ drawn' = << >>
    /\ pre' = Members
    /\ trace' = NoTrace
    /\ UNCHANGED << m_bits, m_bitCounts, m_ctrlIndex, nativeSeed >>

\* one generator, constructed with the default seed
RequiredBitsInit ==
    \E r \in { CHOOSE w \in NativeRaw : TRUE } : Constructed(Construct(0, r, r))

RequiredBitsSpec == RequiredBitsInit /\ [][RequiredBits]_vars

(***************************************************************************)
(* Properties.  Each is about the call made last: op, args, ret, drawn,    *)
(* trace describe it, pre holds the members before it, Members after it.   *)
(***************************************************************************)
IsRange == op \in {"random", "random1"}

MinOf == IF op = "random" THEN args[1] ELSE 0

MaxOf == IF op = "random" THEN args[2] ELSE args[1]

\* number of binary digits of n
RECURSIVE BitLen(_)
BitLen(n) == IF n = 0 THEN 0 ELSE 1 + BitLen(n \div 2)

\* the buffer the last extraction of a randomBits() call used
Active == m_ctrlIndex

\* C1: for min < max, random(min, max) returns a value v with min <= v < max
RandomInRange ==
    (IsRange /\ MinOf < MaxOf) => (MinOf <= ret /\ ret < MaxOf)

\* C2: for count in 1..20, randomBits(count, offset) returns a value in
\* [offset, offset + 2^count), with or without a refill during the extraction
BitsInRange ==
    (op = "randomBits" /\ args[1] \in 1..MAX_BITS_PER_RANDOM_REQUEST)
        => (args[2] <= ret /\ ret < args[2] + 2^(args[1]))

\* a 20-bit request that ran short: old bits above, fresh bits below
BitsInRangeWitness ==
    /\ op = "randomBits" /\ args = << 20, 0 - MaxOffset >>
    /\ Len(drawn) = 1
    /\ pre.counts[Active] \in 1..19
    /\ ret - args[2] >= 2^(20 - pre.counts[Active])
    /\ (ret - args[2]) % (2^(20 - pre.counts[Active])) # 0
    /\ ret < args[2] + 2^20

\* C3: every span from 1 to 2^20 - 1 is used unclamped, and the width is the
\* number of binary digits of that span (up to 20)
SpanUnclamped ==
    (IsRange /\ MaxOf - MinOf - 1 \in 1..(2^MAX_BITS_PER_RANDOM_REQUEST - 1))
        => /\ trace.span = MaxOf - MinOf - 1
           /\ trace.width = BitLen(MaxOf - MinOf - 1)

\* C4 as stated: randomBits(0, offset) returns exactly offset
ZeroBitsReturnsOffset ==
    (op = "randomBits" /\ args[1] = 0) => ret = args[2]

\* C4 as amended: randomBits(0, offset) returns exactly 0, whatever the
\* offset and the state of the generator
ZeroBitsReturnsZero ==
    (op = "randomBits" /\ args[1] = 0) => ret = 0

ZeroBitsReturnsZeroWitness ==
    /\ op = "randomBits" /\ args = << 0, 0 - MaxOffset >>
    /\ ret = 0
    /\ m_bitCounts[0] < BITS_PER_NATIVE_RANDOM
    /\ m_bitCounts[1] < BITS_PER_NATIVE_RANDOM

CacheInvariant ==
    /\ \A i \in 0..1 : m_bitCounts[i] \in 0..BITS_PER_NATIVE_RANDOM
    /\ trace.readOK

\* a call in which one draw ran short and was refilled, and a peek accepted
CacheInvariantWitness ==
    /\ op = "random" /\ trace.path \in {"peek1", "peek2"}
    /\ Len(drawn) >= 1
    /\ trace.readOK

\* C7: a random() call ends in one of its five stages and makes at most 4
\* native calls, the exhaustion path included
BoundedNativeCalls ==
    IsRange => /\ Len(drawn) <= 4
               /\ trace.path \in {"degenerate", "draw1", "draw2",
                                  "peek1", "peek2", "native"}

\* span 200, width 8: both draws refilled and rejected, both peeks rejected
BoundedNativeCallsWitness ==
    /\ op = "random" /\ args = << 0, 201 >>
    /\ trace.span = 200 /\ trace.width = 8
    /\ trace.path = "native"
    /\ Len(drawn) = 3
    /\ 0 <= ret /\ ret < 200

\* C8: randomSeed(seed) changes the native seed only; the members are as
\* before, and every request that the cache can serve without a refill
\* returns after the reseed what it would have returned before it
ReseedKeepsCache ==
    op = "randomSeed"
        => /\ Members = pre
           /\ drawn = << >>
           /\ nativeSeed = args[1]
           /\ \A a \in BitsInputs, w \in NativeRaw :
                LET before == randomBits(EnterFrom(pre, << w >>), a[1], a[2])
                    after  == randomBits(Enter(<< w >>), a[1], a[2])
                IN  before.g.drawn = << >>
                        => (after.ret = before.ret /\ after.g.drawn = << >>)

ReseedKeepsCacheWitness ==
    /\ op = "randomSeed" /\ args = << 42 >> /\ nativeSeed = 42
    /\ m_bitCounts[1] \in 1..(BITS_PER_NATIVE_RANDOM - 1)
    /\ m_bits[1] # 0

\* C9: randomBits with count 0 does not toggle the index, does not change
\* either buffer and makes no native call
ZeroBitsNoEffect ==
    (op = "randomBits" /\ args[1] = 0) => (Members = pre /\ drawn = << >>)

ZeroBitsNoEffectWitness ==
    /\ op = "randomBits" /\ args[1] = 0
    /\ pre.idx = 1 /\ m_ctrlIndex = 1
    /\ calls >= 2

\* C10: a randomBits request for more than 20 bits returns the value and
\* leaves the members that the same request for 20 bits does, from the same
\* members and with the same native outputs
ClampedCountAsTwenty ==
    (op = "randomBits" /\ args[1] > MAX_BITS_PER_RANDOM_REQUEST)
        => \A w \in NativeRaw :
             LET in == IF drawn = << >> THEN << w >> ELSE drawn
                 e  == randomBits(EnterFrom(pre, in),
                                  MAX_BITS_PER_RANDOM_REQUEST, args[2])
             IN  /\ ret = e.ret
                 /\ m_bits = e.g.bits
                 /\ m_bitCounts = e.g.counts
                 /\ m_ctrlIndex = e.g.idx
                 /\ drawn = e.g.drawn

ClampedCountAsTwentyWitness ==
    /\ op = "randomBits" /\ args[1] = 255
    /\ Len(drawn) = 1
    /\ ret >= 2^19

\* the steps of the call made last, and the members and the number of native
\* outputs consumed when step k began
Steps == 1..Len(trace.log)

Step(k) == trace.log[k]

Before(k) ==
    IF k = 1 THEN [bits |-> pre.bits, counts |-> pre.counts, nd |-> 0]
    ELSE [bits |-> trace.log[k - 1].bits, counts |-> trace.log[k - 1].counts,
          nd |-> trace.log[k - 1].nd]

\* step k is a _get_bits call; the buffer it reads held Held(k) bits
IsGet(k) == Step(k).kind = "get"

Held(k) == Before(k).counts[Step(k).buf]

\* the buffer that step k does not read is as it was before the step
OtherKept(k) ==
    /\ Step(k).bits[1 - Step(k).buf] = Before(k).bits[1 - Step(k).buf]
    /\ Step(k).counts[1 - Step(k).buf] = Before(k).counts[1 - Step(k).buf]

\* the "peek" steps of the call made last, and the first of them
PeekSteps == { k \in Steps : Step(k).kind = "peek" }

FirstPeek == CHOOSE k \in PeekSteps : \A j \in PeekSteps : k <= j

\* both draws of the random() call made last were rejected
BothDrawsRejected ==
    /\ IsRange /\ Len(trace.log) >= 3
    /\ IsGet(1) /\ Step(1).val >= trace.span
    /\ IsGet(2) /\ Step(2).val >= trace.span

\* C11: _get_required_bits(n) is the number of binary digits of n, that is
\* ceil(log2(n + 1)), for every n of 0 .. 2^20: the table for n < 256, the
\* shifted lookups above
RequiredBitsIsBitLen ==
    op = "_get_required_bits" => ret = BitLen(args[1])

\* the largest n: 2^20 needs 21 digits, found by the third stage
RequiredBitsIsBitLenWitness ==
    /\ op = "_get_required_bits"
    /\ args[1] = 2^MAX_BITS_PER_RANDOM_REQUEST
    /\ ShiftRight(args[1], 16) # 0
    /\ ret = MAX_BITS_PER_RANDOM_REQUEST + 1

\* C12: a _get_bits call for more bits than its buffer holds returns the old
\* bits shifted left by the shortfall OR the low shortfall bits of the fresh
\* native word, makes exactly one native call, leaves 31 - shortfall bits in
\* its buffer and leaves the other buffer as it was
ShortfallExtraction ==
    \A k \in Steps :
        (IsGet(k) /\ Held(k) < Step(k).n)
            => /\ Step(k).nd = Before(k).nd + 1
               /\ Step(k).val =
                    BitOr((Before(k).bits[Step(k).buf] % 2^Held(k))
                              * 2^(Step(k).n - Held(k)),
                          NativeRandom(drawn[Step(k).nd], LONG_MAX)
                              % 2^(Step(k).n - Held(k)))
               /\ Step(k).counts[Step(k).buf]
                    = BITS_PER_NATIVE_RANDOM - (Step(k).n - Held(k))
               /\ OtherKept(k)

\* the second draw of a random() call ran short with old bits left, and both
\* parts of its value are not 0
ShortfallExtractionWitness ==
    /\ op = "random" /\ Len(trace.log) >= 2
    /\ IsGet(2) /\ Held(2) \in 1..(Step(2).n - 1)
    /\ Step(2).val >= 2^(Step(2).n - Held(2))
    /\ Step(2).val % 2^(Step(2).n - Held(2)) # 0
    /\ Step(2).counts[Step(2).buf] > BITS_PER_NATIVE_RANDOM - Step(2).n

\* C13: a _get_bits call for no more bits than its buffer holds returns the
\* low count bits of the buffer, shifts the buffer right by count, lowers its
\* count by exactly count, makes no native call and leaves the other buffer
\* and m_ctrlIndex as they were
NoRefillExtraction ==
    \A k \in Steps :
        (IsGet(k) /\ Held(k) >= Step(k).n)
            => /\ Step(k).val = Before(k).bits[Step(k).buf] % 2^(Step(k).n)
               /\ Step(k).bits[Step(k).buf]
                    = Before(k).bits[Step(k).buf] \div 2^(Step(k).n)
               /\ Step(k).counts[Step(k).buf] = Held(k) - Step(k).n
               /\ Step(k).nd = Before(k).nd
               /\ OtherKept(k)
               /\ Step(k).idx = Step(k).buf

\* 3 bits taken from a buffer that held more, bits left in it, the other
\* buffer partly used
NoRefillExtractionWitness ==
    /\ op = "randomBits" /\ args[1] = 3 /\ Len(trace.log) = 1
    /\ IsGet(1) /\ Held(1) >= 3
    /\ drawn = << >>
    /\ Step(1).val # 0
    /\ m_bits[Step(1).buf] # 0
    /\ m_bitCounts[1 - Step(1).buf] \in 1..(BITS_PER_NATIVE_RANDOM - 1)

\* C14 as stated: after two rejected draws the first peek reads the buffer
\* that the second draw did not extract from
FirstPeekOtherBuffer ==
    BothDrawsRejected
        => (PeekSteps # {} /\ Step(FirstPeek).buf # Step(2).buf)

\* C14 as amended: after two rejected draws the first peek reads the buffer
\* that the second draw has just extracted from, m_ctrlIndex not having
\* changed in between; a second peek, made after the index is advanced, reads
\* the other buffer, the one the first draw extracted from
FirstPeekSameBuffer ==
    BothDrawsRejected
        => /\ PeekSteps # {}
           /\ Step(FirstPeek).buf = Step(2).buf
           /\ Step(FirstPeek).buf # Step(1).buf
           /\ \A k \in PeekSteps :
                k # FirstPeek => (Step(k).buf = Step(1).buf /\ ~Step(FirstPeek).ok)

\* the first peek accepted, from the buffer the second draw had used, whose
\* count fell by two widths in all
FirstPeekSameBufferWitness ==
    /\ op = "random" /\ BothDrawsRejected
    /\ trace.path = "peek1"
    /\ Step(FirstPeek).ok
    /\ Step(FirstPeek).buf = Step(2).buf
    /\ m_bitCounts[Step(2).buf] = Held(2) - 2 * trace.width

\* C15: a peek at a buffer that holds fewer than width bits, or whose low
\* width bits are not below the span, leaves both buffers and their counts as
\* they were and makes no native call; any other peek accepts: it takes
\* exactly width bits from the buffer it reads, its value is below the span,
\* and it makes no native call
PeekCommitsOnlyOnAccept ==
    \A k \in PeekSteps :
        IF \/ Step(k).counts0[Step(k).buf] < Step(k).n
           \/ Step(k).bits0[Step(k).buf] % 2^(Step(k).n) >= trace.span
        THEN /\ ~Step(k).ok
             /\ Step(k).bits = Step(k).bits0
             /\ Step(k).counts = Step(k).counts0
             /\ Step(k).nd = Step(k).nd0
        ELSE /\ Step(k).ok
             /\ Step(k).val = Step(k).bits0[Step(k).buf] % 2^(Step(k).n)
             /\ Step(k).val < trace.span
             /\ Step(k).counts[Step(k).buf]
                  = Step(k).counts0[Step(k).buf] - Step(k).n
             /\ Step(k).bits[Step(k).buf]
                  = Step(k).bits0[Step(k).buf] \div 2^(Step(k).n)
             /\ Step(k).bits[1 - Step(k).buf] = Step(k).bits0[1 - Step(k).buf]
             /\ Step(k).counts[1 - Step(k).buf]
                  = Step(k).counts0[1 - Step(k).buf]
             /\ Step(k).nd = Step(k).nd0

\* a call with a peek that found too few bits, or bits not below the span,
\* and a later peek that accepted
PeekCommitsOnlyOnAcceptWitness ==
    /\ IsRange /\ trace.path = "peek2"
    /\ \E j, k \in PeekSteps :
          /\ j < k
          /\ ~Step(j).ok
          /\ Step(j).counts0[Step(j).buf] >= Step(j).n
          /\ Step(k).ok
          /\ Step(k).counts[Step(k).buf] < Step(k).counts0[Step(k).buf]

\* C16: a randomBits call for at least one bit advances m_ctrlIndex exactly
\* once and extracts once, from the buffer the index then names, leaving the
\* other buffer as it was; so of two such calls in a row the second extracts
\* from the buffer the first did not, and the two draws of a random() call
\* whose first draw is rejected extract from different buffers
ToggleEachRequest ==
    [][ /\ (op' = "randomBits" /\ args'[1] >= 1)
            => /\ m_ctrlIndex' = 1 - m_ctrlIndex
               /\ Len(trace'.log) = 1
               /\ trace'.log[1].kind = "get"
               /\ trace'.log[1].buf = m_ctrlIndex'
               /\ m_bits'[m_ctrlIndex] = m_bits[m_ctrlIndex]
               /\ m_bitCounts'[m_ctrlIndex] = m_bitCounts[m_ctrlIndex]
        /\ (/\ op = "randomBits" /\ args[1] >= 1
            /\ op' = "randomBits" /\ args'[1] >= 1)
            => trace'.log[1].buf # trace.log[1].buf
        /\ (op' \in {"random", "random1"} /\ Len(trace'.log) >= 2)
            => /\ trace'.log[1].kind = "get" /\ trace'.log[2].kind = "get"
               /\ trace'.log[1].buf = 1 - m_ctrlIndex
               /\ trace'.log[2].buf = m_ctrlIndex
      ]_vars

\* a randomBits call that extracted from buffer 0 after buffer 1 had served
\* the request before it
ToggleEachRequestWitness ==
    /\ op = "randomBits" /\ args[1] >= 1 /\ calls >= 2
    /\ pre.idx = 1 /\ pre.counts[1] < BITS_PER_NATIVE_RANDOM
    /\ Step(1).buf = 0 /\ m_ctrlIndex = 0
    /\ m_bitCounts[1] = pre.counts[1]

\* C17: random() asks the native generator for its result only when both
\* draws and then two peeks, one at each buffer, have been rejected; it asks
\* for a value of [0, span), returns that value plus min, and this step
\* leaves both buffers and their counts as they were
FallbackLast ==
    /\ (IsRange /\ trace.path = "native")
            => (Len(trace.log) = 5 /\ Step(5).kind = "native")
    /\ \A k \in Steps :
          Step(k).kind = "native"
            => /\ k = 5 /\ Len(trace.log) = 5 /\ trace.path = "native"
               /\ IsGet(1) /\ Step(1).val >= trace.span
               /\ IsGet(2) /\ Step(2).val >= trace.span
               /\ Step(3).kind = "peek" /\ ~Step(3).ok
               /\ Step(4).kind = "peek" /\ ~Step(4).ok
               /\ Step(3).buf # Step(4).buf
               /\ Step(k).val = NativeRandom(drawn[Step(k).nd], trace.span)
               /\ 0 <= Step(k).val /\ Step(k).val < trace.span
               /\ ret = Step(k).val + MinOf
               /\ Step(k).nd = Before(k).nd + 1
               /\ Step(k).bits = Before(k).bits
               /\ Step(k).counts = Before(k).counts

\* random(101), span 100: the native generator gave the result, and the
\* buffers hold what the draws left in them
FallbackLastWitness ==
    /\ op = "random1" /\ args = << 101 >>
    /\ trace.path = "native"
    /\ Step(5).kind = "native"
    /\ ret = Step(5).val
    /\ m_bits = Step(2).bits /\ m_bitCounts = Step(2).counts

\* C19: in every state each buffer's word is below 2^count, that is, has no
\* bit set at or above its count (for count 31: the word is at most
\* LONG_MAX = 2^31 - 1); and every _get_bits call that shifted the whole
\* stored word left, unmasked, returned a value below 2^n for n bits asked
ZeroAboveRemaining ==
    /\ \A i \in 0..1 :
          IF m_bitCounts[i] >= BITS_PER_NATIVE_RANDOM
          THEN m_bits[i] <= LONG_MAX
          ELSE m_bits[i] < 2^(m_bitCounts[i])
    /\ \A k \in Steps :
          (IsGet(k) /\ Held(k) < Step(k).n)
              => (0 <= Step(k).val /\ Step(k).val < 2^(Step(k).n))

\* both buffers partly used, each with its highest counted bit set, after a
\* call that ran short
ZeroAboveRemainingWitness ==
    /\ \A i \in 0..1 :
          /\ m_bitCounts[i] \in 1..(BITS_PER_NATIVE_RANDOM - 1)
          /\ m_bits[i] >= 2^(m_bitCounts[i] - 1)
    /\ \E k \in Steps : IsGet(k) /\ Held(k) \in 1..(Step(k).n - 1)

\* C20: the constructor fills both buffers, one native output each, 31 bits
\* each, index 0, from the native generator as it was before the seed is
\* given to it; so a generator constructed with any other seed on the same
\* native outputs has the same members, and every request the buffers can
\* serve without a refill returns the same value in both
SeedAfterFill ==
    op = "RandomX1"
        => /\ Len(drawn) = 2
           /\ \A i \in 0..1 :
                /\ m_bits[i] = NativeRandom(drawn[i + 1], LONG_MAX)
                /\ m_bitCounts[i] = BITS_PER_NATIVE_RANDOM
           /\ m_ctrlIndex = 0
           /\ trace.src = Unseeded
           /\ nativeSeed = args[1]
           /\ \A seed \in SeedInputs :
                /\ Construct(seed, drawn[1], drawn[2]).bits = m_bits
                /\ Construct(seed, drawn[1], drawn[2]).counts = m_bitCounts
                /\ Construct(seed, drawn[1], drawn[2]).idx = m_ctrlIndex
                /\ \A a \in BitsInputs :
                     LET other == randomBits(
                                     EnterFrom(Construct(seed, drawn[1], drawn[2]),
                                               << >>), a[1], a[2])
                         this  == randomBits(Enter(<< >>), a[1], a[2])
                     IN  this.g.drawn = << >>
                            => (other.g.drawn = << >> /\ other.ret = this.ret)

\* a generator constructed with seed 42 whose two buffers differ
SeedAfterFillWitness ==
    /\ op = "RandomX1" /\ args = << 42 >> /\ nativeSeed = 42
    /\ m_bits[0] # m_bits[1]
    /\ trace.src = Unseeded

\* Generator states for C18: constructed on a native word r of 0 .. MaxWord
\* in both buffers, then j requests for 20 bits, refilled with the word w.
MaxWord == 255

CoverCalls == 0..3

CoverRanges == { << 0, 2 >>, << 0 - 3, 2 >>, << 5, 22 >>, << 0, 256 >> }

RECURSIVE Drained(_, _, _)
Drained(g, w, j) ==
    IF j = 0 THEN g
    ELSE randomBits(EnterFrom(Drained(g, w, j - 1), << w >>),
                    MAX_BITS_PER_RANDOM_REQUEST, 0).g

CoverStates ==
    { Drained(Construct(0, r, r), w, j) :
          r \in 0..MaxWord, w \in NativeRaw, j \in CoverCalls }

\* random(min, max) returns v from the current state or from some state of
\* CoverStates, on some native outputs
Returnable(min_val, max_val, v) ==
    \E g \in CoverStates \cup { Members }, w \in NativeRaw :
        random(EnterFrom(g, << w, w, w >>), min_val, max_val).ret = v

\* C18: for the ranges of CoverRanges (max - min from 2 to 256) every v with
\* min <= v < max, v = max - 1 included, is returned by random(min, max)
\* from some generator state on some native outputs
FullRangeCoverage ==
    \A mm \in CoverRanges :
        \A v \in mm[1]..(mm[2] - 1) : Returnable(mm[1], mm[2], v)

\* what holds instead: every v with min <= v <= max - 2 is returned from
\* some state, and no call ever returns max - 1
LowerRangeCoverage ==
    \A mm \in CoverRanges :
        \A v \in mm[1]..(mm[2] - 2) : Returnable(mm[1], mm[2], v)

TopNeverReturned ==
    (IsRange /\ MaxOf - MinOf >= 2) => (MinOf <= ret /\ ret <= MaxOf - 2)

====
